---- MODULE Spec2Model ----
(***************************************************************************)
(* The session store (zustand store useUserStore), the persisted token     *)
(* (localStorage key "authToken"), the axios default Authorization header  *)
(* and the route guard (ProtectedRoute) of the hosting dashboard.          *)
(*                                                                         *)
(* An async handler is split at its await: the part before the request is  *)
(* one step, the continuation after the response (try branch or catch      *)
(* branch) is another.  Requests in flight are kept in issue order.        *)
(***************************************************************************)
EXTENDS Integers, Sequences, FiniteSets, TLC

\* ------------------------------------------------------------------------
\* Bounds and input domains
\* ------------------------------------------------------------------------

\* most requests in flight at once
MaxInFlight == 2

\* most user-management requests among them
MaxManage == 1

\* JavaScript null for the string-valued fields (token, error, header)
NULL == "null"

\* access tokens the server may return or the browser may have persisted
Tokens == {"tokA", "tokB"}

\* err.message of a failed request
Messages == {"Network Error", "Request failed with status code 401"}

\* user === null
NoUser == [id |-> "none", role |-> "none", account_status |-> "none"]

\* user records the server may return (one per role)
Users == { [id |-> "u1", role |-> "user", account_status |-> "active"],
           [id |-> "u2", role |-> "admin", account_status |-> "active"],
           [id |-> "u3", role |-> "super_admin", account_status |-> "active"] }

\* no request / no response payload
NoCall == [op |-> "none", url |-> NULL, token |-> NULL, auth |-> NULL, id |-> NULL]
NoData == [access_token |-> NULL, user |-> NoUser, users |-> << >>, stats |-> NULL]

VARIABLES
    store,        \* the zustand state object
    authToken,    \* localStorage["authToken"], NULL when the key is absent
    authHeader,   \* api.defaults.headers.common['Authorization'] (the token), NULL when deleted
    pending,      \* requests in flight, in issue order
    last,         \* the step taken last: its name, the request it sent, the
                  \* response it consumed, what it threw to its caller
    mounted,      \* Main's mount effect has run (it calls checkAuth, once)
    race,         \* history of two overlapping logins: how far they are, and
                  \* the outcome of the one issued last (followed in SpecRace)
    applied,      \* history: the list mutations whose success response was
                  \* consumed (followed in SpecMutations)
    loginPage,    \* state of the Login component and the navigate calls of
                  \* its latest submit
    serverScreen, \* state of the ServerManagement component and its timers
    ordersScreen, \* state of the OrdersManagement component
    plansScreen,  \* state of the PlansManagement component
    event         \* the handler of a screen that ran last, and its arguments

\* the state of the pages and admin screens
screens == <<loginPage, serverScreen, ordersScreen, plansScreen, event>>

vars == <<store, authToken, authHeader, pending, last, mounted, race, applied,
          loginPage, serverScreen, ordersScreen, plansScreen, event>>

\* the session: the store, the persisted token, the requests in flight
session == <<store, authToken, authHeader, pending, last, mounted, race, applied>>

\* ------------------------------------------------------------------------
\* Helpers
\* ------------------------------------------------------------------------

\* JavaScript truthiness of a string-or-null value: `x || null`, `!!x`, `if (x)`
Truthy(x) == x # NULL /\ x # ""

\* zustand set(partial): shallow merge of partial into the state object
Set(st, partial) ==
    [k \in DOMAIN st |-> IF k \in DOMAIN partial THEN partial[k] ELSE st[k]]

\* the request interceptor: the persisted token, when there is one, replaces
\* the Authorization header of the outgoing request
Interceptor(ls, configAuth) == IF Truthy(ls) THEN ls ELSE configAuth

\* the part of the world a handler reads and writes
World == [store |-> store, authToken |-> authToken, authHeader |-> authHeader]

\* ------------------------------------------------------------------------
\* The store: initial state
\* ------------------------------------------------------------------------

useUserStore(ls) ==
    [ users           |-> << >>,
      user            |-> NoUser,
      stats           |-> NULL,
      loading         |-> FALSE,
      error           |-> NULL,
      token           |-> IF Truthy(ls) THEN ls ELSE NULL,
      isAuthenticated |-> Truthy(ls) ]

\* ------------------------------------------------------------------------
\* login
\* ------------------------------------------------------------------------

\* variant: the attempt starts without clearing the previous error
loginStart_keepsError(w) ==
    [ store      |-> Set(w.store, [loading |-> TRUE]),
      authToken  |-> w.authToken,
      authHeader |-> w.authHeader,
      thrown     |-> NULL,
      call       |-> [op |-> "login", url |-> "/auth/login", token |-> NULL,
                      auth |-> Interceptor(w.authToken, w.authHeader),
                      id |-> NULL] ]

loginStart(w) ==
    [ store      |-> Set(w.store, [loading |-> TRUE, error |-> NULL]),
      authToken  |-> w.authToken,
      authHeader |-> w.authHeader,
      thrown     |-> NULL,
      call       |-> [op |-> "login", url |-> "/auth/login", token |-> NULL,
                      auth |-> Interceptor(w.authToken, w.authHeader),
                      id |-> NULL] ]

\* variant: the token is kept in memory only and never written to localStorage
loginFulfilled_notPersisted(w, data) ==
    [ store      |-> Set(w.store, [user |-> data.user, token |-> data.access_token,
                                   isAuthenticated |-> TRUE, loading |-> FALSE]),
      authToken  |-> w.authToken,
      authHeader |-> data.access_token,
      thrown     |-> NULL,
      call       |-> NoCall ]

loginFulfilled(w, data) ==
    [ store      |-> Set(w.store, [user |-> data.user, token |-> data.access_token,
                                   isAuthenticated |-> TRUE, loading |-> FALSE]),
      authToken  |-> data.access_token,
      authHeader |-> data.access_token,
      thrown     |-> NULL,
      call       |-> NoCall ]

\* variant: the catch block records the error but does not re-throw
loginRejected_swallowed(w, message) ==
    [ store      |-> Set(w.store, [error |-> message, loading |-> FALSE]),
      authToken  |-> w.authToken,
      authHeader |-> w.authHeader,
      thrown     |-> NULL,
      call       |-> NoCall ]

loginRejected(w, message) ==
    [ store      |-> Set(w.store, [error |-> message, loading |-> FALSE]),
      authToken  |-> w.authToken,
      authHeader |-> w.authHeader,
      thrown     |-> message,
      call       |-> NoCall ]

\* ------------------------------------------------------------------------
\* signUp
\* ------------------------------------------------------------------------

signUpStart(w) ==
    [ store      |-> Set(w.store, [loading |-> TRUE, error |-> NULL]),
      authToken  |-> w.authToken,
      authHeader |-> w.authHeader,
      thrown     |-> NULL,
      call       |-> [op |-> "signUp", url |-> "/auth/register", token |-> NULL,
                      auth |-> Interceptor(w.authToken, w.authHeader),
                      id |-> NULL] ]

\* variant: registration stores the account but waits for a verification
\* before it marks the session authenticated
signUpFulfilled_unverified(w, data) ==
    [ store      |-> Set(w.store, [user |-> data.user, token |-> data.access_token,
                                   isAuthenticated |-> FALSE, loading |-> FALSE]),
      authToken  |-> data.access_token,
      authHeader |-> data.access_token,
      thrown     |-> NULL,
      call       |-> NoCall ]

signUpFulfilled(w, data) ==
    [ store      |-> Set(w.store, [user |-> data.user, token |-> data.access_token,
                                   isAuthenticated |-> TRUE, loading |-> FALSE]),
      authToken  |-> data.access_token,
      authHeader |-> data.access_token,
      thrown     |-> NULL,
      call       |-> NoCall ]

signUpRejected(w, message) ==
    [ store      |-> Set(w.store, [error |-> message, loading |-> FALSE]),
      authToken  |-> w.authToken,
      authHeader |-> w.authHeader,
      thrown     |-> message,
      call       |-> NoCall ]

\* ------------------------------------------------------------------------
\* logout
\* ------------------------------------------------------------------------

\* variant: the store is reset but localStorage.removeItem is forgotten
logout_keepsPersisted(w) ==
    [ store      |-> Set(w.store, [user |-> NoUser, token |-> NULL,
                                   isAuthenticated |-> FALSE,
                                   users |-> << >>, stats |-> NULL]),
      authToken  |-> w.authToken,
      authHeader |-> NULL,
      thrown     |-> NULL,
      call       |-> NoCall ]

\* variant: logout also resets the request bookkeeping
logout_resetsFlags(w) ==
    [ store      |-> Set(w.store, [user |-> NoUser, token |-> NULL,
                                   isAuthenticated |-> FALSE,
                                   users |-> << >>, stats |-> NULL,
                                   loading |-> FALSE, error |-> NULL]),
      authToken  |-> NULL,
      authHeader |-> NULL,
      thrown     |-> NULL,
      call       |-> NoCall ]

logout(w) ==
    [ store      |-> Set(w.store, [user |-> NoUser, token |-> NULL,
                                   isAuthenticated |-> FALSE,
                                   users |-> << >>, stats |-> NULL]),
      authToken  |-> NULL,
      authHeader |-> NULL,
      thrown     |-> NULL,
      call       |-> NoCall ]

\* ------------------------------------------------------------------------
\* checkAuth
\* ------------------------------------------------------------------------

\* variant: no test of the persisted token, /auth/me is asked in every case
checkAuthStart_alwaysAsks(w) ==
    [ store      |-> Set(w.store, [loading |-> TRUE]),
      authToken  |-> w.authToken,
      authHeader |-> w.authHeader,
      thrown     |-> NULL,
      call       |-> [op |-> "checkAuth", url |-> "/auth/me",
                      token |-> w.authToken,
                      auth |-> Interceptor(w.authToken, w.authToken),
                      id |-> NULL] ]

\* variant: a missing token is reported as an error
checkAuthStart_reportsMissing(w) ==
    IF Truthy(w.authToken)
    THEN [ store      |-> Set(w.store, [loading |-> TRUE]),
           authToken  |-> w.authToken,
           authHeader |-> w.authHeader,
           thrown     |-> NULL,
           call       |-> [op |-> "checkAuth", url |-> "/auth/me",
                           token |-> w.authToken,
                           auth |-> Interceptor(w.authToken, w.authToken),
                           id |-> NULL] ]
    ELSE [ store      |-> Set(w.store, [isAuthenticated |-> FALSE, loading |-> FALSE,
                                        error |-> "Request failed with status code 401"]),
           authToken  |-> w.authToken,
           authHeader |-> w.authHeader,
           thrown     |-> NULL,
           call       |-> NoCall ]

\* up to the await: read the persisted token; with one, set loading and send
\* GET /auth/me carrying it; without one, finish at once
checkAuthStart(w) ==
    IF Truthy(w.authToken)
    THEN [ store      |-> Set(w.store, [loading |-> TRUE]),
           authToken  |-> w.authToken,
           authHeader |-> w.authHeader,
           thrown     |-> NULL,
           call       |-> [op |-> "checkAuth", url |-> "/auth/me",
                           token |-> w.authToken,
                           auth |-> Interceptor(w.authToken, w.authToken),
                           id |-> NULL] ]
    ELSE [ store      |-> Set(w.store, [isAuthenticated |-> FALSE, loading |-> FALSE]),
           authToken  |-> w.authToken,
           authHeader |-> w.authHeader,
           thrown     |-> NULL,
           call       |-> NoCall ]

\* variant: only the user record is hydrated
checkAuthFulfilled_userOnly(w, token, data) ==
    [ store      |-> Set(w.store, [user |-> data.user, loading |-> FALSE]),
      authToken  |-> w.authToken,
      authHeader |-> token,
      thrown     |-> NULL,
      call       |-> NoCall ]

\* variant: the session is hydrated but loading is left as it was
checkAuthFulfilled_keepsLoading(w, token, data) ==
    [ store      |-> Set(w.store, [user |-> data.user, token |-> token,
                                   isAuthenticated |-> TRUE]),
      authToken  |-> w.authToken,
      authHeader |-> token,
      thrown     |-> NULL,
      call       |-> NoCall ]

\* the try branch after the await; token is the one read before the request
checkAuthFulfilled(w, token, data) ==
    [ store      |-> Set(w.store, [user |-> data.user, token |-> token,
                                   isAuthenticated |-> TRUE, loading |-> FALSE]),
      authToken  |-> w.authToken,
      authHeader |-> token,
      thrown     |-> NULL,
      call       |-> NoCall ]

\* variant: the catch block of login (record the message, keep the session)
checkAuthRejected_asLogin(w, message) ==
    [ store      |-> Set(w.store, [error |-> message, loading |-> FALSE]),
      authToken  |-> w.authToken,
      authHeader |-> w.authHeader,
      thrown     |-> NULL,
      call       |-> NoCall ]

\* variant: the session is cleared and the message is also put in error
checkAuthRejected_setsError(w, message) ==
    [ store      |-> Set(w.store, [user |-> NoUser, token |-> NULL,
                                   isAuthenticated |-> FALSE, loading |-> FALSE,
                                   error |-> message]),
      authToken  |-> NULL,
      authHeader |-> NULL,
      thrown     |-> NULL,
      call       |-> NoCall ]

\* the catch branch
checkAuthRejected(w, message) ==
    [ store      |-> Set(w.store, [user |-> NoUser, token |-> NULL,
                                   isAuthenticated |-> FALSE, loading |-> FALSE]),
      authToken  |-> NULL,
      authHeader |-> NULL,
      thrown     |-> NULL,
      call       |-> NoCall ]

\* ------------------------------------------------------------------------
\* User management: fetchUsers, getUserById, createUser, updateUser,
\* deleteUser, suspendUser, activateUser, fetchUserStats
\* ------------------------------------------------------------------------

ManageOps == {"fetchUsers", "getUserById", "createUser", "updateUser",
              "deleteUser", "suspendUser", "activateUser", "fetchUserStats"}

\* the operations that address one user by id
WithId == {"getUserById", "updateUser", "deleteUser", "suspendUser", "activateUser"}

ManageUrl(op) ==
    CASE op = "fetchUsers"     -> "/users?"
      [] op = "getUserById"    -> "/users/{id}"
      [] op = "createUser"     -> "/users"
      [] op = "updateUser"     -> "/users/{id}"
      [] op = "deleteUser"     -> "/users/{id}"
      [] op = "suspendUser"    -> "/users/{id}/suspend"
      [] op = "activateUser"   -> "/users/{id}/activate"
      [] op = "fetchUserStats" -> "/users/stats"

\* a handler result that wrote the store only
StoreOnly(w, st) ==
    [ store |-> st, authToken |-> w.authToken, authHeader |-> w.authHeader,
      thrown |-> NULL, call |-> NoCall ]

\* users.map(u => u.id === id ? repl(u) : u), repl given as a record of
\* the fields to overwrite
MapId(users, id, with) ==
    [i \in 1..Len(users) |->
        IF users[i].id = id THEN Set(users[i], with) ELSE users[i]]

\* every operation begins the same way: loading, no error, then the request
manageStart(w, op, id) ==
    [ store      |-> Set(w.store, [loading |-> TRUE, error |-> NULL]),
      authToken  |-> w.authToken,
      authHeader |-> w.authHeader,
      thrown     |-> NULL,
      call       |-> [op |-> op, url |-> ManageUrl(op), token |-> NULL,
                      auth |-> Interceptor(w.authToken, w.authHeader),
                      id |-> id] ]

fetchUsersFulfilled(w, data) ==
    StoreOnly(w, Set(w.store, [users |-> data.users, loading |-> FALSE]))

getUserByIdFulfilled(w, data) ==
    StoreOnly(w, Set(w.store, [user |-> data.user, loading |-> FALSE]))

createUserFulfilled(w, data) ==
    StoreOnly(w, Set(w.store, [users |-> Append(w.store.users, data.user),
                               loading |-> FALSE]))

updateUserFulfilled(w, id, data) ==
    StoreOnly(w, Set(w.store,
        [users |-> MapId(w.store.users, id, data.user),
         user |-> data.user,
         loading |-> FALSE]))

deleteUserFulfilled(w, id) ==
    StoreOnly(w, Set(w.store,
        [users |-> SelectSeq(w.store.users, LAMBDA u : u.id # id),
         loading |-> FALSE]))

\* variant: every listed account is suspended
suspendUserFulfilled_everyone(w, id) ==
    StoreOnly(w, Set(w.store,
        [users |-> [i \in 1..Len(w.store.users) |->
                      [w.store.users[i] EXCEPT !.account_status = "suspended"]],
         loading |-> FALSE]))

suspendUserFulfilled(w, id) ==
    StoreOnly(w, Set(w.store,
        [users |-> MapId(w.store.users, id, [account_status |-> "suspended"]),
         loading |-> FALSE]))

activateUserFulfilled(w, id) ==
    StoreOnly(w, Set(w.store,
        [users |-> MapId(w.store.users, id, [account_status |-> "active"]),
         loading |-> FALSE]))

fetchUserStatsFulfilled(w, data) ==
    StoreOnly(w, Set(w.store, [stats |-> data.stats, loading |-> FALSE]))

\* the try branch of the operation that sent req
manageFulfilled(w, req, data) ==
    CASE req.op = "fetchUsers"     -> fetchUsersFulfilled(w, data)
      [] req.op = "getUserById"    -> getUserByIdFulfilled(w, data)
      [] req.op = "createUser"     -> createUserFulfilled(w, data)
      [] req.op = "updateUser"     -> updateUserFulfilled(w, req.id, data)
      [] req.op = "deleteUser"     -> deleteUserFulfilled(w, req.id)
      [] req.op = "suspendUser"    -> suspendUserFulfilled(w, req.id)
      [] req.op = "activateUser"   -> activateUserFulfilled(w, req.id)
      [] req.op = "fetchUserStats" -> fetchUserStatsFulfilled(w, data)

\* variant: a failure empties the cached list
manageRejected_dropsUsers(w, message) ==
    StoreOnly(w, Set(w.store, [error |-> message, loading |-> FALSE,
                               users |-> << >>]))

\* every catch block is the same: the message is recorded, nothing is thrown
manageRejected(w, message) ==
    StoreOnly(w, Set(w.store, [error |-> message, loading |-> FALSE]))

\* ------------------------------------------------------------------------
\* Role predicates of the store
\* ------------------------------------------------------------------------

\* variant: only the exact role admin counts as admin
getIsAdmin_exact(st) == st.user.role = "admin"

getIsAdmin(st) == st.user.role = "admin" \/ st.user.role = "super_admin"

getIsSuperAdmin(st) == st.user.role = "super_admin"

\* ------------------------------------------------------------------------
\* The route guard
\* ------------------------------------------------------------------------

\* variant: the guard without the requireSuperAdmin check
ProtectedRoute_adminOnly(st, requireAdmin, requireSuperAdmin) ==
    LET isAdmin == st.user.role = "admin" \/ st.user.role = "super_admin"
    IN  IF st.loading
        THEN [outcome |-> "Pending", to |-> NULL, checks |-> <<"loading">>]
        ELSE IF ~st.isAuthenticated
        THEN [outcome |-> "Denied", to |-> "/login",
              checks |-> <<"loading", "isAuthenticated">>]
        ELSE IF requireAdmin /\ ~isAdmin
        THEN [outcome |-> "Denied", to |-> "/dashboard",
              checks |-> <<"loading", "isAuthenticated", "requireAdmin">>]
        ELSE [outcome |-> "Allowed", to |-> NULL,
              checks |-> <<"loading", "isAuthenticated", "requireAdmin">>]

\* variant: every denial goes to the login page
ProtectedRoute_loginForAll(st, requireAdmin, requireSuperAdmin) ==
    LET isAdmin      == st.user.role = "admin" \/ st.user.role = "super_admin"
        isSuperAdmin == st.user.role = "super_admin"
    IN  IF st.loading
        THEN [outcome |-> "Pending", to |-> NULL, checks |-> <<"loading">>]
        ELSE IF ~st.isAuthenticated
        THEN [outcome |-> "Denied", to |-> "/login",
              checks |-> <<"loading", "isAuthenticated">>]
        ELSE IF requireAdmin /\ ~isAdmin
        THEN [outcome |-> "Denied", to |-> "/login",
              checks |-> <<"loading", "isAuthenticated", "requireAdmin">>]
        ELSE IF requireSuperAdmin /\ ~isSuperAdmin
        THEN [outcome |-> "Denied", to |-> "/login",
              checks |-> <<"loading", "isAuthenticated", "requireAdmin",
                           "requireSuperAdmin">>]
        ELSE [outcome |-> "Allowed", to |-> NULL,
              checks |-> <<"loading", "isAuthenticated", "requireAdmin",
                           "requireSuperAdmin">>]

\* variant: the authentication check comes before the loading check
ProtectedRoute_authFirst(st, requireAdmin, requireSuperAdmin) ==
    LET isAdmin      == st.user.role = "admin" \/ st.user.role = "super_admin"
        isSuperAdmin == st.user.role = "super_admin"
    IN  IF ~st.isAuthenticated
        THEN [outcome |-> "Denied", to |-> "/login",
              checks |-> <<"loading", "isAuthenticated">>]
        ELSE IF st.loading
        THEN [outcome |-> "Pending", to |-> NULL, checks |-> <<"loading">>]
        ELSE IF requireAdmin /\ ~isAdmin
        THEN [outcome |-> "Denied", to |-> "/dashboard",
              checks |-> <<"loading", "isAuthenticated", "requireAdmin">>]
        ELSE IF requireSuperAdmin /\ ~isSuperAdmin
        THEN [outcome |-> "Denied", to |-> "/dashboard",
              checks |-> <<"loading", "isAuthenticated", "requireAdmin",
                           "requireSuperAdmin">>]
        ELSE [outcome |-> "Allowed", to |-> NULL,
              checks |-> <<"loading", "isAuthenticated", "requireAdmin",
                           "requireSuperAdmin">>]

\* outcome: Pending (spinner), Denied (Navigate to `to`), Allowed (children);
\* checks: the conditions evaluated, in the order they were evaluated
ProtectedRoute(st, requireAdmin, requireSuperAdmin) ==
    LET isAdmin      == st.user.role = "admin" \/ st.user.role = "super_admin"
        isSuperAdmin == st.user.role = "super_admin"
    IN  IF st.loading
        THEN [outcome |-> "Pending", to |-> NULL, checks |-> <<"loading">>]
        ELSE IF ~st.isAuthenticated
        THEN [outcome |-> "Denied", to |-> "/login",
              checks |-> <<"loading", "isAuthenticated">>]
        ELSE IF requireAdmin /\ ~isAdmin
        THEN [outcome |-> "Denied", to |-> "/dashboard",
              checks |-> <<"loading", "isAuthenticated", "requireAdmin">>]
        ELSE IF requireSuperAdmin /\ ~isSuperAdmin
        THEN [outcome |-> "Denied", to |-> "/dashboard",
              checks |-> <<"loading", "isAuthenticated", "requireAdmin",
                           "requireSuperAdmin">>]
        ELSE [outcome |-> "Allowed", to |-> NULL,
              checks |-> <<"loading", "isAuthenticated", "requireAdmin",
                           "requireSuperAdmin">>]

\* ------------------------------------------------------------------------
\* The login page
\* ------------------------------------------------------------------------

\* useState('') for error, useState(false) for loading; navigate holds the
\* navigate calls made by the latest handleSubmit
Login_useState == [error |-> "", loading |-> FALSE, navigate |-> << >>]

\* err.response?.data?.detail of a failed request that got an answer
Details == {"Incorrect email or password"}

\* handleSubmit up to the await of login
handleSubmitStart(p) ==
    [p EXCEPT !.error = "", !.loading = TRUE, !.navigate = << >>]

\* variant: every successful login is sent to the dashboard
handleSubmitFulfilled_dashboardOnly(p, st) ==
    [p EXCEPT !.navigate = Append(@, "/dashboard"), !.loading = FALSE]

\* the try branch after the await, then finally; st is useUserStore.getState()
handleSubmitFulfilled(p, st) ==
    [p EXCEPT !.navigate = Append(@, IF st.user.role = "admin"
                                        \/ st.user.role = "super_admin"
                                     THEN "/admin"
                                     ELSE "/dashboard"),
              !.loading = FALSE]

\* the catch branch, then finally
handleSubmitRejected(p, detail, message) ==
    [p EXCEPT !.error = IF Truthy(detail) THEN detail
                        ELSE IF Truthy(message) THEN message
                        ELSE "Failed to sign in",
              !.loading = FALSE]

\* ------------------------------------------------------------------------
\* The server screen
\* ------------------------------------------------------------------------

\* most servers provisioned in one visit of the screen
MaxProvision == 1

\* the value of randomIP()
RandomIP == "10.0.0.1"

\* the seeded records, in the order the load leaves them: the fields the
\* handlers read and write (id, server_status, ip_address)
SEED_SERVERS ==
    << [id |-> "srv_1", server_status |-> "active",       ip_address |-> RandomIP],
       [id |-> "srv_2", server_status |-> "provisioning", ip_address |-> NULL],
       [id |-> "srv_3", server_status |-> "suspended",    ip_address |-> NULL],
       [id |-> "srv_4", server_status |-> "active",       ip_address |-> RandomIP],
       [id |-> "srv_5", server_status |-> "active",       ip_address |-> RandomIP] >>

\* the id randomId() gives to the n-th server provisioned
NewServerId(n) == IF n = 1 THEN "srv_a" ELSE IF n = 2 THEN "srv_b" ELSE "srv_c"

ServerActions == {"start", "stop", "restart", "terminate"}

\* useState([]) for servers, useState(true) for loading; timers are the
\* setTimeout callbacks not yet run, in the order they fall due; provisioned
\* counts the calls of handleProvision
ServerManagement_useState ==
    [servers |-> << >>, loading |-> TRUE, timers |-> << >>, provisioned |-> 0]

\* prev.map(...) of handleServerAction, for one record
ServerAfter(srv, action) ==
    CASE action = "start" ->
            [srv EXCEPT !.server_status = "active",
                        !.ip_address = IF Truthy(@) THEN @ ELSE RandomIP]
      [] action = "stop" -> [srv EXCEPT !.server_status = "suspended"]
      [] action = "restart" ->
            [srv EXCEPT !.server_status = "active",
                        !.ip_address = IF Truthy(@) THEN @ ELSE RandomIP]
      [] action = "terminate" -> [srv EXCEPT !.server_status = "terminated"]
      [] OTHER -> srv

handleServerAction(servers, serverId, action) ==
    [i \in 1..Len(servers) |->
        IF servers[i].id # serverId THEN servers[i]
        ELSE ServerAfter(servers[i], action)]

\* confirmed is what confirm() returned
handleDeleteServer(servers, serverId, confirmed) ==
    IF ~confirmed THEN servers
    ELSE SelectSeq(servers, LAMBDA srv : srv.id # serverId)

\* the mount effect: the load is scheduled
ServerManagement_useEffect(sc) ==
    [sc EXCEPT !.timers = Append(@, [kind |-> "load", id |-> NULL])]

\* the load's callback: the seeded list replaces the list
ServerLoaded(sc) ==
    [sc EXCEPT !.servers = SEED_SERVERS, !.loading = FALSE]

\* the new record goes first, the completion is scheduled
handleProvision(sc, newId) ==
    [sc EXCEPT !.servers = << [id |-> newId, server_status |-> "provisioning",
                               ip_address |-> NULL] >> \o @,
               !.timers = Append(@, [kind |-> "provision", id |-> newId]),
               !.provisioned = @ + 1]

\* variant: the completion puts the record back when it is no longer listed
ProvisionElapsed_recreates(servers, id) ==
    IF \E i \in 1..Len(servers) : servers[i].id = id
    THEN [i \in 1..Len(servers) |->
            IF servers[i].id = id
            THEN [servers[i] EXCEPT !.server_status = "active",
                                    !.ip_address = RandomIP]
            ELSE servers[i]]
    ELSE << [id |-> id, server_status |-> "active", ip_address |-> RandomIP] >>
         \o servers

\* the completion's callback
ProvisionElapsed(servers, id) ==
    [i \in 1..Len(servers) |->
        IF servers[i].id = id
        THEN [servers[i] EXCEPT !.server_status = "active",
                                !.ip_address = RandomIP]
        ELSE servers[i]]

\* ------------------------------------------------------------------------
\* The orders screen
\* ------------------------------------------------------------------------

OrderStatuses == {"pending", "processing", "completed", "cancelled"}
PaymentStatuses == {"pending", "paid", "failed", "refunded"}

\* selectedOrder === null
NoOrder == [id |-> "none", order_status |-> "none", payment_status |-> "none"]

\* the list the load leaves, cut to its first records: the fields the
\* handlers read and write (id, order_status, payment_status)
SEED_ORDERS ==
    << [id |-> "ord_1", order_status |-> "pending",    payment_status |-> "pending"],
       [id |-> "ord_2", order_status |-> "processing", payment_status |-> "paid"] >>

\* useState([]) for orders, useState(true) for loading, useState(null) for
\* selectedOrder, useState(false) for showModal
OrdersManagement_useState ==
    [orders |-> << >>, loading |-> TRUE, selectedOrder |-> NoOrder,
     showModal |-> FALSE]

\* the load's callback
OrdersLoaded(sc) == [sc EXCEPT !.orders = SEED_ORDERS, !.loading = FALSE]

\* variant: the list is updated, the order shown in the modal is not
handleUpdateOrderStatus_listOnly(sc, orderId, newStatus) ==
    [sc EXCEPT
        !.orders = [i \in 1..Len(@) |->
                      IF @[i].id = orderId
                      THEN [@[i] EXCEPT !.order_status = newStatus]
                      ELSE @[i]]]

handleUpdateOrderStatus(sc, orderId, newStatus) ==
    [sc EXCEPT
        !.orders = [i \in 1..Len(@) |->
                      IF @[i].id = orderId
                      THEN [@[i] EXCEPT !.order_status = newStatus]
                      ELSE @[i]],
        !.selectedOrder = IF @ # NoOrder /\ @.id = orderId
                          THEN [@ EXCEPT !.order_status = newStatus]
                          ELSE @]

handleUpdatePaymentStatus(sc, orderId, newStatus) ==
    [sc EXCEPT
        !.orders = [i \in 1..Len(@) |->
                      IF @[i].id = orderId
                      THEN [@[i] EXCEPT !.payment_status = newStatus]
                      ELSE @[i]],
        !.selectedOrder = IF @ # NoOrder /\ @.id = orderId
                          THEN [@ EXCEPT !.payment_status = newStatus]
                          ELSE @]

\* the View Details button of a row
ViewOrder(sc, order) == [sc EXCEPT !.selectedOrder = order, !.showModal = TRUE]

\* the Close button of the modal
CloseOrder(sc) == [sc EXCEPT !.showModal = FALSE, !.selectedOrder = NoOrder]

\* ------------------------------------------------------------------------
\* The plans screen
\* ------------------------------------------------------------------------

\* most plans created in one visit of the screen
MaxNewPlans == 1

\* names typed into the form
PlanNames == {"Starter", "Cloud"}

\* editingPlan === null
NoPlan == [id |-> "none", name |-> "none", is_active |-> FALSE]

\* the list the load leaves, cut to its first records: the fields the
\* handlers read and write (id, is_active) and one field of the form (name)
SEED_PLANS ==
    << [id |-> "plan_1", name |-> "Starter", is_active |-> TRUE],
       [id |-> "plan_2", name |-> "Cloud",   is_active |-> FALSE] >>

\* the id randomId() gives to the n-th plan created
NewPlanId(n) == IF n = 1 THEN "plan_a" ELSE IF n = 2 THEN "plan_b" ELSE "plan_c"

\* useState([]) for plans, useState(true) for loading, useState(null) for
\* editingPlan, useState(false) for showModal and isNewPlan; created counts
\* the plans added
PlansManagement_useState ==
    [plans |-> << >>, loading |-> TRUE, editingPlan |-> NoPlan,
     showModal |-> FALSE, isNewPlan |-> FALSE, created |-> 0]

\* the load's callback
PlansLoaded(sc) == [sc EXCEPT !.plans = SEED_PLANS, !.loading = FALSE]

handleSavePlan(sc, newId) ==
    IF sc.editingPlan = NoPlan THEN sc
    ELSE IF sc.isNewPlan
    THEN [sc EXCEPT !.plans = << [sc.editingPlan EXCEPT !.id = newId] >> \o @,
                    !.created = @ + 1,
                    !.showModal = FALSE, !.editingPlan = NoPlan,
                    !.isNewPlan = FALSE]
    ELSE [sc EXCEPT !.plans = [i \in 1..Len(@) |->
                                 IF @[i].id = sc.editingPlan.id
                                 THEN sc.editingPlan ELSE @[i]],
                    !.showModal = FALSE, !.editingPlan = NoPlan,
                    !.isNewPlan = FALSE]

\* confirmed is what confirm() returned
handleDeletePlan(plans, planId, confirmed) ==
    IF ~confirmed THEN plans
    ELSE SelectSeq(plans, LAMBDA p : p.id # planId)

\* variant: the button only ever deactivates
handleToggleActive_deactivates(plans, planId, currentStatus) ==
    [i \in 1..Len(plans) |->
        IF plans[i].id = planId
        THEN [plans[i] EXCEPT !.is_active = FALSE]
        ELSE plans[i]]

\* currentStatus is plan.is_active of the row as it was rendered
handleToggleActive(plans, planId, currentStatus) ==
    [i \in 1..Len(plans) |->
        IF plans[i].id = planId
        THEN [plans[i] EXCEPT !.is_active = ~currentStatus]
        ELSE plans[i]]

handleNewPlan(sc) ==
    [sc EXCEPT !.editingPlan = [id |-> "", name |-> "", is_active |-> TRUE],
               !.isNewPlan = TRUE, !.showModal = TRUE]

\* the Edit button of a row
EditPlan(sc, plan) ==
    [sc EXCEPT !.editingPlan = plan, !.isNewPlan = FALSE, !.showModal = TRUE]

\* the form's inputs: setEditingPlan({ ...editingPlan, name }) and the
\* Active Plan checkbox
ChangePlan(sc, name, checked) ==
    [sc EXCEPT !.editingPlan = [@ EXCEPT !.name = name, !.is_active = checked]]

\* the Cancel button of the modal
CancelPlan(sc) ==
    [sc EXCEPT !.showModal = FALSE, !.editingPlan = NoPlan, !.isNewPlan = FALSE]

\* no handler of a screen has run
NoEvent == [op |-> "none", id |-> NULL, arg |-> NULL]

\* ------------------------------------------------------------------------
\* State machine
\* ------------------------------------------------------------------------

\* the sequence s without its i-th element
Remove(s, i) == [j \in 1..(Len(s) - 1) |-> IF j < i THEN s[j] ELSE s[j + 1]]

\* a handler step with result r: write what it wrote, send what it sent
Apply(name, r, req, data, rest) ==
    /\ store' = r.store
    /\ authToken' = r.authToken
    /\ authHeader' = r.authHeader
    /\ pending' = IF r.call = NoCall THEN rest ELSE Append(rest, r.call)
    /\ last' = [op |-> name, call |-> r.call, thrown |-> r.thrown,
                req |-> req, data |-> data,
                requireAdmin |-> FALSE, requireSuperAdmin |-> FALSE,
                outcome |-> NULL, to |-> NULL, checks |-> << >>,
                isAdmin |-> FALSE, isSuperAdmin |-> FALSE]

\* the same, outside the two-login scenario
Step(name, r, req, data, rest) ==
    /\ Apply(name, r, req, data, rest)
    /\ UNCHANGED <<race, applied, screens>>

\* outcome of a login call: kind is "none" while it has not resolved
NoOutcome == [kind |-> "none", data |-> NoData, message |-> NULL]
RaceOff == [phase |-> "off", newest |-> NoOutcome]

\* the pages and screens as their components create them
ScreensNotShown ==
    /\ loginPage = Login_useState
    /\ serverScreen = ServerManagement_useState
    /\ ordersScreen = OrdersManagement_useState
    /\ plansScreen = PlansManagement_useState
    /\ event = NoEvent

Init ==
    /\ authToken \in Tokens \cup {NULL}
    /\ store = useUserStore(authToken)
    /\ authHeader = NULL
    /\ pending = << >>
    /\ last = [op |-> "init", call |-> NoCall, thrown |-> NULL,
               req |-> NoCall, data |-> NoData,
               requireAdmin |-> FALSE, requireSuperAdmin |-> FALSE,
               outcome |-> NULL, to |-> NULL, checks |-> << >>,
               isAdmin |-> FALSE, isSuperAdmin |-> FALSE]
    /\ mounted = FALSE
    /\ race = RaceOff
    /\ applied = {}
    /\ ScreensNotShown

\* the user can act only once the root has mounted: the mount effect runs
\* right after the first render, before any input event is handled
Login ==
    /\ mounted
    /\ Len(pending) < MaxInFlight
    /\ UNCHANGED mounted
    /\ Step("login", loginStart(World), NoCall, NoData, pending)

LoginOk ==
    \E i \in 1..Len(pending), t \in Tokens, u \in Users :
        /\ pending[i].op = "login"
        /\ UNCHANGED mounted
        /\ LET data == [NoData EXCEPT !.access_token = t, !.user = u]
           IN  Step("loginFulfilled", loginFulfilled(World, data),
                    pending[i], data, Remove(pending, i))

LoginFail ==
    \E i \in 1..Len(pending), m \in Messages :
        /\ pending[i].op = "login"
        /\ UNCHANGED mounted
        /\ Step("loginRejected", loginRejected(World, m),
                pending[i], NoData, Remove(pending, i))

SignUp ==
    /\ mounted
    /\ Len(pending) < MaxInFlight
    /\ UNCHANGED mounted
    /\ Step("signUp", signUpStart(World), NoCall, NoData, pending)

SignUpOk ==
    \E i \in 1..Len(pending), t \in Tokens, u \in Users :
        /\ pending[i].op = "signUp"
        /\ UNCHANGED mounted
        /\ LET data == [NoData EXCEPT !.access_token = t, !.user = u]
           IN  Step("signUpFulfilled", signUpFulfilled(World, data),
                    pending[i], data, Remove(pending, i))

SignUpFail ==
    \E i \in 1..Len(pending), m \in Messages :
        /\ pending[i].op = "signUp"
        /\ UNCHANGED mounted
        /\ Step("signUpRejected", signUpRejected(World, m),
                pending[i], NoData, Remove(pending, i))

Logout ==
    /\ mounted
    /\ UNCHANGED mounted
    /\ Step("logout", logout(World), NoCall, NoData, pending)

\* variant: the effect is not tied to the mount and runs after any change
CheckAuth_onEveryChange ==
    /\ mounted' = TRUE
    /\ Len(pending) < MaxInFlight
    /\ Step("checkAuth", checkAuthStart(World), NoCall, NoData, pending)

\* Main's mount effect: the one call of checkAuth
CheckAuth ==
    /\ mounted = FALSE
    /\ mounted' = TRUE
    /\ Len(pending) < MaxInFlight
    /\ Step("checkAuth", checkAuthStart(World), NoCall, NoData, pending)

CheckAuthOk ==
    \E i \in 1..Len(pending), u \in Users :
        /\ pending[i].op = "checkAuth"
        /\ UNCHANGED mounted
        /\ LET data == [NoData EXCEPT !.user = u]
           IN  Step("checkAuthFulfilled",
                    checkAuthFulfilled(World, pending[i].token, data),
                    pending[i], data, Remove(pending, i))

CheckAuthFail ==
    \E i \in 1..Len(pending), m \in Messages :
        /\ pending[i].op = "checkAuth"
        /\ UNCHANGED mounted
        /\ Step("checkAuthRejected", checkAuthRejected(World, m),
                pending[i], NoData, Remove(pending, i))

\* a navigation to a guarded route: the guard is rendered with the current store
Render ==
    \E ra \in BOOLEAN, rsa \in BOOLEAN :
        LET g == ProtectedRoute(store, ra, rsa)
        IN  /\ last' = [op |-> "render", call |-> NoCall, thrown |-> NULL,
                        req |-> NoCall, data |-> NoData,
                        requireAdmin |-> ra, requireSuperAdmin |-> rsa,
                        outcome |-> g.outcome, to |-> g.to, checks |-> g.checks,
                        isAdmin |-> FALSE, isSuperAdmin |-> FALSE]
            /\ UNCHANGED <<store, authToken, authHeader, pending, mounted, race, applied, screens>>

\* a component asks the store for the role predicates
AskRole ==
    /\ last' = [op |-> "getIsAdmin", call |-> NoCall, thrown |-> NULL,
                req |-> NoCall, data |-> NoData,
                requireAdmin |-> FALSE, requireSuperAdmin |-> FALSE,
                outcome |-> NULL, to |-> NULL, checks |-> << >>,
                isAdmin |-> getIsAdmin(store),
                isSuperAdmin |-> getIsSuperAdmin(store)]
    /\ UNCHANGED <<store, authToken, authHeader, pending, mounted, race, applied, screens>>

Next ==
    \/ Login
    \/ LoginOk
    \/ LoginFail
    \/ SignUp
    \/ SignUpOk
    \/ SignUpFail
    \/ Logout
    \/ CheckAuth
    \/ CheckAuthOk
    \/ CheckAuthFail
    \/ Render
    \/ AskRole

Spec == Init /\ [][Next]_vars

\* ------------------------------------------------------------------------
\* The store with the user-management operations
\* ------------------------------------------------------------------------

\* the ids the admin screen addresses
Ids == {"u1", "u2"}

\* the record the server holds for an id
Account(id) == CHOOSE u \in Users : u.id = id

\* lists GET /users may return
UserLists == { << >>, <<Account("u1")>>, <<Account("u1"), Account("u2")>> }

\* the payloads the server may answer to a request with
Responses(req) ==
    CASE req.op = "fetchUsers" ->
            { [NoData EXCEPT !.users = l] : l \in UserLists }
      [] req.op \in {"getUserById", "updateUser"} ->
            { [NoData EXCEPT !.user = Account(req.id)] }
      [] req.op = "createUser" ->
            { [NoData EXCEPT !.user = Account(id)] : id \in Ids }
      [] req.op = "fetchUserStats" ->
            { [NoData EXCEPT !.stats = "stats"] }
      [] OTHER -> { NoData }

\* the user-management requests in flight
ManageInFlight == { i \in 1..Len(pending) : pending[i].op \in ManageOps }

Manage ==
    \E op \in ManageOps, id \in Ids \cup {NULL} :
        /\ mounted
        /\ Len(pending) < MaxInFlight
        /\ Cardinality(ManageInFlight) < MaxManage
        /\ (op \in WithId) <=> (id # NULL)
        /\ UNCHANGED mounted
        /\ Step("manage", manageStart(World, op, id), NoCall, NoData, pending)

ManageOk ==
    \E i \in 1..Len(pending) :
        /\ pending[i].op \in ManageOps
        /\ UNCHANGED mounted
        /\ \E data \in Responses(pending[i]) :
              \* the server gives a created account an id no listed account has
              /\ pending[i].op = "createUser" =>
                    \A k \in 1..Len(store.users) : store.users[k].id # data.user.id
              /\ Step("manageFulfilled", manageFulfilled(World, pending[i], data),
                      pending[i], data, Remove(pending, i))

ManageFail ==
    \E i \in 1..Len(pending), m \in Messages :
        /\ pending[i].op \in ManageOps
        /\ UNCHANGED mounted
        /\ Step("manageRejected", manageRejected(World, m),
                pending[i], NoData, Remove(pending, i))

\* a returning user: a token is persisted when the page loads
InitUsers ==
    /\ Init
    /\ authToken = "tokA"

NextUsers ==
    \/ CheckAuth
    \/ CheckAuthOk
    \/ CheckAuthFail
    \/ Logout
    \/ Manage
    \/ ManageOk
    \/ ManageFail

SpecUsers == InitUsers /\ [][NextUsers]_vars

\* ------------------------------------------------------------------------
\* Two overlapping logins
\* ------------------------------------------------------------------------

\* a visitor without a persisted token, after the root has mounted and its
\* checkAuth has found nothing to check
InitRace ==
    /\ authToken = NULL
    /\ authHeader = NULL
    /\ store = checkAuthStart([store |-> useUserStore(NULL), authToken |-> NULL,
                               authHeader |-> NULL]).store
    /\ pending = << >>
    /\ mounted = TRUE
    /\ last = [op |-> "checkAuth", call |-> NoCall, thrown |-> NULL,
               req |-> NoCall, data |-> NoData,
               requireAdmin |-> FALSE, requireSuperAdmin |-> FALSE,
               outcome |-> NULL, to |-> NULL, checks |-> << >>,
               isAdmin |-> FALSE, isSuperAdmin |-> FALSE]
    /\ race = [phase |-> "idle", newest |-> NoOutcome]
    /\ applied = {}
    /\ ScreensNotShown

\* the history after the response to the i-th request in flight, with outcome
\* o: of two logins in flight the first in the queue is the older one
Resolved(r, i, o) ==
    CASE r.phase = "one" -> [phase |-> "single", newest |-> o]
      [] r.phase = "two" /\ i = 1 -> [phase |-> "old", newest |-> r.newest]
      [] r.phase = "two" /\ i = 2 -> [phase |-> "new", newest |-> o]
      [] r.phase = "old" -> [phase |-> "both", newest |-> o]
      [] r.phase = "new" -> [phase |-> "both", newest |-> r.newest]
      [] OTHER -> r

\* login is called: the first call, or a second one while the first is in flight
RaceLogin ==
    /\ race.phase \in {"idle", "one"}
    /\ Len(pending) < MaxInFlight
    /\ Apply("login", loginStart(World), NoCall, NoData, pending)
    /\ race' = [race EXCEPT !.phase = IF race.phase = "idle" THEN "one" ELSE "two"]
    /\ UNCHANGED <<mounted, applied, screens>>

RaceLoginOk ==
    \E i \in 1..Len(pending), t \in Tokens, u \in Users :
        /\ pending[i].op = "login"
        /\ LET data == [NoData EXCEPT !.access_token = t, !.user = u]
           IN  /\ Apply("loginFulfilled", loginFulfilled(World, data),
                        pending[i], data, Remove(pending, i))
               /\ race' = Resolved(race, i, [kind |-> "ok", data |-> data,
                                             message |-> NULL])
        /\ UNCHANGED <<mounted, applied, screens>>

RaceLoginFail ==
    \E i \in 1..Len(pending), m \in Messages :
        /\ pending[i].op = "login"
        /\ Apply("loginRejected", loginRejected(World, m),
                 pending[i], NoData, Remove(pending, i))
        /\ race' = Resolved(race, i, [kind |-> "fail", data |-> NoData,
                                      message |-> m])
        /\ UNCHANGED <<mounted, applied, screens>>

NextRace ==
    \/ RaceLogin
    \/ RaceLoginOk
    \/ RaceLoginFail

SpecRace == InitRace /\ [][NextRace]_vars

\* ------------------------------------------------------------------------
\* Every operation of the store, with requests that are always answered
\* ------------------------------------------------------------------------

\* the response to a request in flight arrives: its promise settles and the
\* continuation of the handler that awaits it runs
Respond ==
    \/ LoginOk
    \/ LoginFail
    \/ SignUpOk
    \/ SignUpFail
    \/ CheckAuthOk
    \/ CheckAuthFail
    \/ ManageOk
    \/ ManageFail

\* of the user-management operations, which all start and end alike, the one
\* without arguments: the dashboard asks for the statistics
FetchUserStats ==
    /\ Manage
    /\ last'.call.op = "fetchUserStats"

NextLive ==
    \/ Login
    \/ SignUp
    \/ Logout
    \/ CheckAuth
    \/ FetchUserStats
    \/ Respond

\* a request of the operation leaves the queue: its response was consumed
Answered(op) ==
    \E i \in 1..Len(pending) :
        /\ pending[i].op = op
        /\ pending' = Remove(pending, i)

\* no request stays unanswered, of whichever operation, while others are
\* issued and answered
SpecLive ==
    /\ Init
    /\ [][NextLive]_vars
    /\ WF_pending(Answered("login"))
    /\ WF_pending(Answered("signUp"))
    /\ WF_pending(Answered("checkAuth"))
    /\ WF_pending(Answered("fetchUserStats"))

\* ------------------------------------------------------------------------
\* Overlapping mutations of the users list
\* ------------------------------------------------------------------------

\* the operations that change the cached list record by record
ListMutations == {"createUser", "deleteUser", "suspendUser", "activateUser"}

\* the list an admin has fetched: one active and one suspended account
FetchedUsers ==
    << Account("u1"), [Account("u2") EXCEPT !.account_status = "suspended"] >>

\* the account POST /users returns
CreatedUser == Account("u3")

\* an admin whose session was restored and whose list has been fetched
AdminSession ==
    /\ authToken = "tokA"
    /\ authHeader = "tokA"
    /\ store = fetchUsersFulfilled(
                 [store |-> checkAuthFulfilled(
                               [store |-> useUserStore("tokA"),
                                authToken |-> "tokA", authHeader |-> NULL],
                               "tokA", [NoData EXCEPT !.user = Account("u3")]).store,
                  authToken |-> "tokA", authHeader |-> "tokA"],
                 [NoData EXCEPT !.users = FetchedUsers]).store
    /\ pending = << >>
    /\ mounted = TRUE
    /\ last = [op |-> "manageFulfilled", call |-> NoCall, thrown |-> NULL,
               req |-> NoCall, data |-> [NoData EXCEPT !.users = FetchedUsers],
               requireAdmin |-> FALSE, requireSuperAdmin |-> FALSE,
               outcome |-> NULL, to |-> NULL, checks |-> << >>,
               isAdmin |-> FALSE, isSuperAdmin |-> FALSE]
    /\ race = RaceOff
    /\ applied = {}

InitMutations ==
    /\ AdminSession
    /\ ScreensNotShown

\* the ids a mutation has addressed, in flight or applied
Addressed ==
    { pending[i].id : i \in 1..Len(pending) } \cup { m.id : m \in applied }

\* the admin issues a mutation on an account no other mutation addresses;
\* createUser is issued once
Mutate ==
    \E op \in ListMutations, id \in Ids \cup {NULL} :
        /\ Len(pending) < MaxInFlight
        /\ (op \in WithId) <=> (id # NULL)
        /\ id \notin Addressed
        /\ op = "createUser" => CreatedUser.id \notin { m.id : m \in applied }
        /\ Apply("manage", manageStart(World, op, id), NoCall, NoData, pending)
        /\ UNCHANGED <<mounted, race, applied, screens>>

\* overlapped: another mutation was in flight when the response arrived;
\* overtook: it had been issued before this one
MutateOk ==
    \E i \in 1..Len(pending) :
        LET req  == pending[i]
            data == IF req.op = "createUser"
                    THEN [NoData EXCEPT !.user = CreatedUser]
                    ELSE NoData
        IN  /\ Apply("manageFulfilled", manageFulfilled(World, req, data),
                     req, data, Remove(pending, i))
            /\ applied' = applied \cup
                  { [op |-> req.op,
                     id |-> IF req.op = "createUser" THEN CreatedUser.id ELSE req.id,
                     overlapped |-> Len(pending) > 1,
                     overtook |-> i > 1] }
            /\ UNCHANGED <<mounted, race, screens>>

MutateFail ==
    \E i \in 1..Len(pending), m \in Messages :
        /\ Apply("manageRejected", manageRejected(World, m),
                 pending[i], NoData, Remove(pending, i))
        /\ UNCHANGED <<mounted, race, applied, screens>>

NextMutations ==
    \/ Mutate
    \/ MutateOk
    \/ MutateFail

SpecMutations == InitMutations /\ [][NextMutations]_vars

\* ------------------------------------------------------------------------
\* Signing in through the login page
\* ------------------------------------------------------------------------

\* the form is submitted: the button is disabled while the page is loading
Submit ==
    /\ mounted
    /\ loginPage.loading = FALSE
    /\ Len(pending) < MaxInFlight
    /\ Apply("login", loginStart(World), NoCall, NoData, pending)
    /\ loginPage' = handleSubmitStart(loginPage)
    /\ UNCHANGED <<mounted, race, applied, serverScreen, ordersScreen,
                   plansScreen, event>>

\* login resolves and handleSubmit goes on after its await, in the same task
SubmitOk ==
    \E i \in 1..Len(pending), t \in Tokens, u \in Users :
        /\ pending[i].op = "login"
        /\ LET data == [NoData EXCEPT !.access_token = t, !.user = u]
               r    == loginFulfilled(World, data)
           IN  /\ Apply("loginFulfilled", r, pending[i], data, Remove(pending, i))
               /\ loginPage' = handleSubmitFulfilled(loginPage, r.store)
        /\ UNCHANGED <<mounted, race, applied, serverScreen, ordersScreen,
                       plansScreen, event>>

\* login rejects: what it throws is caught by handleSubmit; a login that
\* threw nothing would let handleSubmit go on as after a success
SubmitFail ==
    \E i \in 1..Len(pending), m \in Messages, detail \in Details \cup {NULL} :
        /\ pending[i].op = "login"
        /\ LET r == loginRejected(World, m)
           IN  /\ Apply("loginRejected", r, pending[i], NoData, Remove(pending, i))
               /\ loginPage' = IF r.thrown # NULL
                               THEN handleSubmitRejected(loginPage, detail, r.thrown)
                               ELSE handleSubmitFulfilled(loginPage, r.store)
        /\ UNCHANGED <<mounted, race, applied, serverScreen, ordersScreen,
                       plansScreen, event>>

NextLogin ==
    \/ CheckAuth
    \/ CheckAuthOk
    \/ CheckAuthFail
    \/ Logout
    \/ Submit
    \/ SubmitOk
    \/ SubmitFail

SpecLogin == Init /\ [][NextLogin]_vars

\* ------------------------------------------------------------------------
\* The server screen in use
\* ------------------------------------------------------------------------

\* the admin opens the screen: the component is created and its mount effect
\* schedules the load
InitServers ==
    /\ AdminSession
    /\ loginPage = Login_useState
    /\ serverScreen = ServerManagement_useEffect(ServerManagement_useState)
    /\ ordersScreen = OrdersManagement_useState
    /\ plansScreen = PlansManagement_useState
    /\ event = NoEvent

\* the timer that falls due first runs its callback: the load (700 ms after
\* the mount) comes before every completion (1500 ms after its click), and
\* the completions come in the order of their clicks
ServerTimer ==
    /\ serverScreen.timers # << >>
    /\ LET t    == Head(serverScreen.timers)
           rest == [serverScreen EXCEPT !.timers = Tail(@)]
       IN  /\ serverScreen' =
                 IF t.kind = "load" THEN ServerLoaded(rest)
                 ELSE [rest EXCEPT !.servers = ProvisionElapsed(@, t.id)]
           /\ event' = [op |-> "timer", id |-> t.id, arg |-> t.kind]
    /\ UNCHANGED <<session, loginPage, ordersScreen, plansScreen>>

\* the Provision Server button, shown also while the list loads
Provision ==
    /\ serverScreen.provisioned < MaxProvision
    /\ LET newId == NewServerId(serverScreen.provisioned + 1)
       IN  /\ serverScreen' = handleProvision(serverScreen, newId)
           /\ event' = [op |-> "handleProvision", id |-> newId, arg |-> NULL]
    /\ UNCHANGED <<session, loginPage, ordersScreen, plansScreen>>

\* the buttons of a row: Start on a suspended server, Restart and Stop on an
\* active one, Terminate on every one
ServerAction ==
    \E i \in 1..Len(serverScreen.servers), action \in ServerActions :
        LET srv == serverScreen.servers[i]
        IN  /\ serverScreen.loading = FALSE
            /\ action = "start" => srv.server_status = "suspended"
            /\ action \in {"restart", "stop"} => srv.server_status = "active"
            /\ serverScreen' =
                  [serverScreen EXCEPT
                      !.servers = handleServerAction(@, srv.id, action)]
            /\ event' = [op |-> "handleServerAction", id |-> srv.id, arg |-> action]
            /\ UNCHANGED <<session, loginPage, ordersScreen, plansScreen>>

\* the Delete Record button of a row and the answer to its confirm dialog
DeleteServer ==
    \E i \in 1..Len(serverScreen.servers), confirmed \in BOOLEAN :
        LET srv == serverScreen.servers[i]
        IN  /\ serverScreen.loading = FALSE
            /\ serverScreen' =
                  [serverScreen EXCEPT
                      !.servers = handleDeleteServer(@, srv.id, confirmed)]
            /\ event' = [op |-> "handleDeleteServer", id |-> srv.id,
                         arg |-> IF confirmed THEN "confirmed" ELSE "cancelled"]
            /\ UNCHANGED <<session, loginPage, ordersScreen, plansScreen>>

NextServers ==
    \/ ServerTimer
    \/ Provision
    \/ ServerAction
    \/ DeleteServer

SpecServers == InitServers /\ [][NextServers]_vars

\* ------------------------------------------------------------------------
\* The orders screen in use
\* ------------------------------------------------------------------------

\* the admin opens the screen: the mount effect has set loading and
\* scheduled the load
InitOrders ==
    /\ AdminSession
    /\ loginPage = Login_useState
    /\ serverScreen = ServerManagement_useState
    /\ ordersScreen = OrdersManagement_useState
    /\ plansScreen = PlansManagement_useState
    /\ event = NoEvent

\* the load's timer elapses
OrdersTimer ==
    /\ ordersScreen.loading
    /\ ordersScreen' = OrdersLoaded(ordersScreen)
    /\ event' = [op |-> "timer", id |-> NULL, arg |-> "load"]
    /\ UNCHANGED <<session, loginPage, serverScreen, plansScreen>>

\* the View Details button of a row
OrderView ==
    \E i \in 1..Len(ordersScreen.orders) :
        LET order == ordersScreen.orders[i]
        IN  /\ ordersScreen.loading = FALSE
            /\ ordersScreen' = ViewOrder(ordersScreen, order)
            /\ event' = [op |-> "view", id |-> order.id, arg |-> NULL]
            /\ UNCHANGED <<session, loginPage, serverScreen, plansScreen>>

\* the Complete Order button of a pending row and the Cancel Order button of
\* a row not cancelled
OrderRowUpdate ==
    \E i \in 1..Len(ordersScreen.orders), newStatus \in {"completed", "cancelled"} :
        LET order == ordersScreen.orders[i]
        IN  /\ ordersScreen.loading = FALSE
            /\ newStatus = "completed" => order.order_status = "pending"
            /\ newStatus = "cancelled" => order.order_status # "cancelled"
            /\ ordersScreen' = handleUpdateOrderStatus(ordersScreen, order.id, newStatus)
            /\ event' = [op |-> "handleUpdateOrderStatus", id |-> order.id,
                         arg |-> newStatus]
            /\ UNCHANGED <<session, loginPage, serverScreen, plansScreen>>

\* the Order Status select of the modal
OrderModalStatus ==
    \E newStatus \in OrderStatuses :
        /\ ordersScreen.showModal
        /\ ordersScreen.selectedOrder # NoOrder
        /\ ordersScreen' = handleUpdateOrderStatus(ordersScreen,
                               ordersScreen.selectedOrder.id, newStatus)
        /\ event' = [op |-> "handleUpdateOrderStatus",
                     id |-> ordersScreen.selectedOrder.id, arg |-> newStatus]
        /\ UNCHANGED <<session, loginPage, serverScreen, plansScreen>>

\* the Payment Status select of the modal
OrderModalPayment ==
    \E newStatus \in PaymentStatuses :
        /\ ordersScreen.showModal
        /\ ordersScreen.selectedOrder # NoOrder
        /\ ordersScreen' = handleUpdatePaymentStatus(ordersScreen,
                               ordersScreen.selectedOrder.id, newStatus)
        /\ event' = [op |-> "handleUpdatePaymentStatus",
                     id |-> ordersScreen.selectedOrder.id, arg |-> newStatus]
        /\ UNCHANGED <<session, loginPage, serverScreen, plansScreen>>

\* the Close button of the modal
OrderClose ==
    /\ ordersScreen.showModal
    /\ ordersScreen.selectedOrder # NoOrder
    /\ ordersScreen' = CloseOrder(ordersScreen)
    /\ event' = [op |-> "close", id |-> ordersScreen.selectedOrder.id, arg |-> NULL]
    /\ UNCHANGED <<session, loginPage, serverScreen, plansScreen>>

NextOrders ==
    \/ OrdersTimer
    \/ OrderView
    \/ OrderRowUpdate
    \/ OrderModalStatus
    \/ OrderModalPayment
    \/ OrderClose

SpecOrders == InitOrders /\ [][NextOrders]_vars

\* ------------------------------------------------------------------------
\* The plans screen in use
\* ------------------------------------------------------------------------

InitPlans ==
    /\ AdminSession
    /\ loginPage = Login_useState
    /\ serverScreen = ServerManagement_useState
    /\ ordersScreen = OrdersManagement_useState
    /\ plansScreen = PlansManagement_useState
    /\ event = NoEvent

\* the load's timer elapses
PlansTimer ==
    /\ plansScreen.loading
    /\ plansScreen' = PlansLoaded(plansScreen)
    /\ event' = [op |-> "timer", id |-> NULL, arg |-> "load"]
    /\ UNCHANGED <<session, loginPage, serverScreen, ordersScreen>>

\* the Activate / Deactivate button of a row, with the row's is_active as
\* rendered
PlanToggle ==
    \E i \in 1..Len(plansScreen.plans) :
        LET plan == plansScreen.plans[i]
        IN  /\ plansScreen.loading = FALSE
            /\ plansScreen' =
                  [plansScreen EXCEPT
                      !.plans = handleToggleActive(@, plan.id, plan.is_active)]
            /\ event' = [op |-> "handleToggleActive", id |-> plan.id, arg |-> NULL]
            /\ UNCHANGED <<session, loginPage, serverScreen, ordersScreen>>

\* the Add New Plan button
PlanNew ==
    /\ plansScreen.created < MaxNewPlans
    /\ plansScreen' = handleNewPlan(plansScreen)
    /\ event' = [op |-> "handleNewPlan", id |-> NULL, arg |-> NULL]
    /\ UNCHANGED <<session, loginPage, serverScreen, ordersScreen>>

\* the Edit button of a row
PlanEdit ==
    \E i \in 1..Len(plansScreen.plans) :
        LET plan == plansScreen.plans[i]
        IN  /\ plansScreen.loading = FALSE
            /\ plansScreen' = EditPlan(plansScreen, plan)
            /\ event' = [op |-> "edit", id |-> plan.id, arg |-> NULL]
            /\ UNCHANGED <<session, loginPage, serverScreen, ordersScreen>>

\* an input of the form changes
PlanChange ==
    \E name \in PlanNames, checked \in BOOLEAN :
        /\ plansScreen.showModal
        /\ plansScreen.editingPlan # NoPlan
        /\ plansScreen' = ChangePlan(plansScreen, name, checked)
        /\ event' = [op |-> "change", id |-> plansScreen.editingPlan.id, arg |-> name]
        /\ UNCHANGED <<session, loginPage, serverScreen, ordersScreen>>

\* the Create Plan / Save Changes button of the modal
PlanSave ==
    /\ plansScreen.showModal
    /\ plansScreen.editingPlan # NoPlan
    /\ plansScreen.isNewPlan => plansScreen.created < MaxNewPlans
    /\ LET newId == NewPlanId(plansScreen.created + 1)
       IN  /\ plansScreen' = handleSavePlan(plansScreen, newId)
           /\ event' = [op |-> "handleSavePlan",
                        id |-> IF plansScreen.isNewPlan THEN newId
                               ELSE plansScreen.editingPlan.id,
                        arg |-> IF plansScreen.isNewPlan THEN "new" ELSE "edit"]
    /\ UNCHANGED <<session, loginPage, serverScreen, ordersScreen>>

\* the Cancel button of the modal
PlanCancel ==
    /\ plansScreen.showModal
    /\ plansScreen.editingPlan # NoPlan
    /\ plansScreen' = CancelPlan(plansScreen)
    /\ event' = [op |-> "cancel", id |-> plansScreen.editingPlan.id, arg |-> NULL]
    /\ UNCHANGED <<session, loginPage, serverScreen, ordersScreen>>

\* the Delete button of a row and the answer to its confirm dialog
PlanDelete ==
    \E i \in 1..Len(plansScreen.plans), confirmed \in BOOLEAN :
        LET plan == plansScreen.plans[i]
        IN  /\ plansScreen.loading = FALSE
            /\ plansScreen' =
                  [plansScreen EXCEPT
                      !.plans = handleDeletePlan(@, plan.id, confirmed)]
            /\ event' = [op |-> "handleDeletePlan", id |-> plan.id,
                         arg |-> IF confirmed THEN "confirmed" ELSE "cancelled"]
            /\ UNCHANGED <<session, loginPage, serverScreen, ordersScreen>>

NextPlans ==
    \/ PlansTimer
    \/ PlanToggle
    \/ PlanNew
    \/ PlanEdit
    \/ PlanChange
    \/ PlanSave
    \/ PlanCancel
    \/ PlanDelete

SpecPlans == InitPlans /\ [][NextPlans]_vars

\* ------------------------------------------------------------------------
\* Type correctness
\* ------------------------------------------------------------------------

TypeOK ==
    /\ store.user \in Users \cup {NoUser}
    /\ store.token \in Tokens \cup {NULL}
    /\ store.isAuthenticated \in BOOLEAN
    /\ store.loading \in BOOLEAN
    /\ store.error \in Messages \cup {NULL}
    /\ authToken \in Tokens \cup {NULL}
    /\ authHeader \in Tokens \cup {NULL}
    /\ Len(pending) <= MaxInFlight
    /\ mounted \in BOOLEAN

\* ------------------------------------------------------------------------
\* Properties
\* ------------------------------------------------------------------------

\* what a handler step left behind: the world and what it threw
Post == [store |-> store, authToken |-> authToken, authHeader |-> authHeader,
         thrown |-> last.thrown]

\* the same, of a handler result
Effect(r) == [store |-> r.store, authToken |-> r.authToken,
              authHeader |-> r.authHeader, thrown |-> r.thrown]

Unauthenticated(st) ==
    /\ st.isAuthenticated = FALSE
    /\ st.token = NULL
    /\ st.user = NoUser

\* C1: in every reachable state isAuthenticated is true if and only if both
\* token and user are non-null.
C1_AuthIffTokenAndUser ==
    store.isAuthenticated <=> (store.token # NULL /\ store.user # NoUser)

\* C2: logout, from any prior state, sends no request and leaves
\* isAuthenticated = false, token = null, user = null and no persisted
\* authToken in the state right after it.
C2_LogoutClearsSession ==
    [][ last'.op = "logout" =>
          /\ Unauthenticated(store')
          /\ authToken' = NULL
          /\ last'.call = NoCall
          /\ pending' = pending ]_vars

\* a logout performed on an authenticated session with a request in flight
C2_Witness ==
    /\ last.op = "logout"
    /\ pending # << >>
    /\ Unauthenticated(store)
    /\ authToken = NULL

C4_LoginSuccess ==
    last.op = "loginFulfilled" =>
        /\ last.data.access_token \in Tokens
        /\ store.token = last.data.access_token
        /\ store.user = last.data.user
        /\ store.isAuthenticated = TRUE
        /\ store.loading = FALSE
        /\ authToken = last.data.access_token

\* a login that succeeded with tokB for an admin
C4_Witness ==
    /\ last.op = "loginFulfilled"
    /\ last.data.access_token = "tokB"
    /\ store.user.role = "admin"

\* C5: every step of signUp (issue, success, failure) leaves the store, the
\* persisted token and what is thrown to the caller exactly as the same step
\* of login would have left them from the same prior state; a successful
\* signUp leaves the session authenticated.
C5_SignUpAsLogin ==
    [][ /\ last'.op = "signUp" => Post' = Effect(loginStart(World))
        /\ last'.op = "signUpFulfilled" =>
              /\ Post' = Effect(loginFulfilled(World, last'.data))
              /\ store'.isAuthenticated
              /\ store'.token = last'.data.access_token
              /\ store'.user = last'.data.user
        /\ last'.op = "signUpRejected" =>
              /\ \E m \in Messages : Post' = Effect(loginRejected(World, m))
              /\ last'.thrown \in Messages ]_vars

\* a signUp that succeeded and authenticated the session
C5_Witness ==
    /\ last.op = "signUpFulfilled"
    /\ store.isAuthenticated
    /\ store.user \in Users
    /\ authToken = store.token

\* C6: when /auth/me fails, right after checkAuth's failure the persisted
\* authToken is gone and isAuthenticated = false, token = null, user = null,
\* loading = false.
C6_CheckAuthFailureLogsOut ==
    last.op = "checkAuthRejected" =>
        /\ last.req.token \in Tokens
        /\ authToken = NULL
        /\ Unauthenticated(store)
        /\ store.loading = FALSE

\* a checkAuth for a persisted token failed
C6_Witness ==
    /\ last.op = "checkAuthRejected"
    /\ last.req.url = "/auth/me"
    /\ last.req.token = "tokA"
    /\ authToken = NULL

\* C7: checkAuth run while no authToken is persisted sends no request and
\* ends with isAuthenticated = false and loading = false.
C7_CheckAuthWithoutToken ==
    [][ (last'.op = "checkAuth" /\ authToken = NULL) =>
          /\ last'.call = NoCall
          /\ pending' = pending
          /\ store'.isAuthenticated = FALSE
          /\ store'.loading = FALSE ]_vars

\* checkAuth ran with nothing persisted
C7_Witness ==
    /\ last.op = "checkAuth"
    /\ authToken = NULL
    /\ last.call = NoCall

\* C8: a failing checkAuth sets no error and throws nothing: neither its
\* start nor its failure changes the error field, and its promise does not
\* reject.
C8_CheckAuthFailureSilent ==
    [][ (last'.op \in {"checkAuth", "checkAuthRejected"}) =>
          /\ store'.error = store.error
          /\ last'.thrown = NULL ]_vars

\* a checkAuth failed while an earlier error was on display
C8_Witness ==
    /\ last.op = "checkAuthRejected"
    /\ store.error \in Messages

\* C9: right after a successful checkAuth, user is the returned record, token
\* is the persisted token checkAuth read, isAuthenticated is true, loading is
\* false, and the step leaves the persisted store as it was.
C9_CheckAuthSuccess ==
    [][ last'.op = "checkAuthFulfilled" =>
          /\ last'.req.token \in Tokens
          /\ store'.user = last'.data.user
          /\ store'.user \in Users
          /\ store'.token = last'.req.token
          /\ store'.isAuthenticated = TRUE
          /\ store'.loading = FALSE
          /\ authToken' = authToken ]_vars

\* a checkAuth succeeded and the token it validated is still persisted
C9_Witness ==
    /\ last.op = "checkAuthFulfilled"
    /\ authToken = last.req.token
    /\ store.token = authToken
    /\ store.user.role = "super_admin"

\* the guard's checks in source order
GuardOrder == <<"loading", "isAuthenticated", "requireAdmin", "requireSuperAdmin">>

UnderPrivileged(role, requireAdmin, requireSuperAdmin) ==
    \/ requireAdmin /\ role \notin {"admin", "super_admin"}
    \/ requireSuperAdmin /\ role # "super_admin"

\* C11: when loading is false, an unauthenticated session is sent to /login
\* whatever the route requires, and an authenticated session whose role does
\* not meet the requirement is sent to /dashboard, never to /login.
C11_RedirectByCause ==
    (last.op = "render" /\ ~store.loading) =>
        /\ ~store.isAuthenticated =>
              (last.outcome = "Denied" /\ last.to = "/login")
        /\ ( /\ store.isAuthenticated
             /\ UnderPrivileged(store.user.role, last.requireAdmin,
                                last.requireSuperAdmin) ) =>
              (last.outcome = "Denied" /\ last.to = "/dashboard")
        /\ last.outcome = "Denied" => last.to \in {"/login", "/dashboard"}

\* an admin opened a super-admin route
C11_Witness ==
    /\ last.op = "render"
    /\ store.isAuthenticated
    /\ store.user.role = "admin"
    /\ last.requireSuperAdmin
    /\ last.to = "/dashboard"

\* C12: while loading is true the guard's outcome is Pending for every
\* requirement, authentication state and role: no redirect, no content.
C12_LoadingIsPending ==
    (last.op = "render" /\ store.loading) =>
        /\ last.outcome = "Pending"
        /\ last.to = NULL
        /\ \A ra \in BOOLEAN, rsa \in BOOLEAN :
              ProtectedRoute(store, ra, rsa).outcome = "Pending"

\* an admin route rendered for a logged-out session while a request is in flight
C12_Witness ==
    /\ last.op = "render"
    /\ store.loading
    /\ ~store.isAuthenticated
    /\ last.requireAdmin
    /\ last.outcome = "Pending"

\* the startup checkAuth has been issued and has come back
StartupResolved ==
    /\ mounted
    /\ \A i \in 1..Len(pending) : pending[i].op # "checkAuth"

\* C13: from process start until the startup checkAuth has resolved, the
\* guard's outcome is Pending, never Allowed or Denied, for every requirement.
C13_PendingUntilStartupResolved ==
    ~StartupResolved =>
        /\ \A ra \in BOOLEAN, rsa \in BOOLEAN :
              ProtectedRoute(store, ra, rsa).outcome = "Pending"
        /\ last.op = "render" => last.outcome = "Pending"

\* C14: getIsAdmin and getIsSuperAdmin depend on the user's role only (admin:
\* true/false, super_admin: true/true, user: false/false, no user:
\* false/false) and calling them changes nothing in the store.
C14_RolePredicates ==
    [][ last'.op = "getIsAdmin" =>
          /\ store' = store
          /\ authToken' = authToken
          /\ authHeader' = authHeader
          /\ pending' = pending
          /\ store.user.role = "admin" =>
                (last'.isAdmin /\ ~last'.isSuperAdmin)
          /\ store.user.role = "super_admin" =>
                (last'.isAdmin /\ last'.isSuperAdmin)
          /\ store.user.role = "user" =>
                (~last'.isAdmin /\ ~last'.isSuperAdmin)
          /\ store.user = NoUser =>
                (~last'.isAdmin /\ ~last'.isSuperAdmin) ]_vars

\* the predicates asked for a super_admin
C14_Witness ==
    /\ last.op = "getIsAdmin"
    /\ store.user.role = "super_admin"
    /\ last.isAdmin
    /\ last.isSuperAdmin

\* the session is what a single login with outcome o leaves to a visitor who
\* was logged out
ReflectsOnly(o) ==
    IF o.kind = "ok"
    THEN /\ store.user = o.data.user
         /\ store.token = o.data.access_token
         /\ store.isAuthenticated = TRUE
         /\ authToken = o.data.access_token
         /\ store.error = NULL
    ELSE /\ Unauthenticated(store)
         /\ authToken = NULL
         /\ store.error = o.message

\* C15: when a second login was issued before the first resolved, then once
\* both have resolved user, token, isAuthenticated, error and the persisted
\* token reflect only the outcome of the login issued last, in whichever
\* order the two responses arrived.
C15_LastIssuedLoginWins ==
    race.phase = "both" => ReflectsOnly(race.newest)

\* the names of the user-management steps
ManageSteps == {"manage", "manageFulfilled", "manageRejected"}

\* C16: user, token and isAuthenticated change only in steps of login,
\* signUp, logout and checkAuth: every step of a user-management operation,
\* its success and its failure included, leaves the three fields as they were.
C16_ManagementKeepsSession ==
    [][ last'.op \in ManageSteps =>
          /\ store'.user = store.user
          /\ store'.token = store.token
          /\ store'.isAuthenticated = store.isAuthenticated ]_vars

\* a login, signUp or checkAuth request is in flight
AuthInFlight ==
    \E i \in 1..Len(pending) : pending[i].op \in {"login", "signUp", "checkAuth"}

\* C17: whenever no login, signUp or checkAuth request is in flight, the
\* persisted authToken is absent exactly when the session is logged out
\* (isAuthenticated = false and token = null), and when present it equals the
\* store's token.
C17_PersistedTokenMatchesSession ==
    ~AuthInFlight =>
        /\ authToken = NULL <=> (store.isAuthenticated = FALSE /\ store.token = NULL)
        /\ authToken # NULL => authToken = store.token

\* C18: a request carries, as its Authorization token, the store's current
\* token: the token set by login, signUp or checkAuth once one is set, and
\* never a different one.
C18_RequestsCarryCurrentToken ==
    [][ last'.call # NoCall => last'.call.auth = store.token ]_vars

\* C19: at process start, before checkAuth has run, user is absent, token is
\* absent and isAuthenticated is false, with or without a persisted authToken.
C19_CreatedEmpty ==
    ~mounted => Unauthenticated(store)

\* C20: in every reachable state, if a login, signUp or checkAuth request is
\* in flight then loading is true, also when several overlap and one of them
\* has resolved.
C20_LoadingWhileInFlight ==
    AuthInFlight => store.loading = TRUE

\* the steps that issue a login, signUp or checkAuth request
AuthStarts == {"login", "signUp", "checkAuth"}

AuthOk == {"loginFulfilled", "signUpFulfilled", "checkAuthFulfilled"}
AuthFail == {"loginRejected", "signUpRejected"}

\* C22: no reachable state has loading = true together with a non-null
\* error, and the operation that resolved last decides both fields: after a
\* success loading is false and error is null, after a failure loading is
\* false and error is that failure's message, whatever an earlier operation
\* left there.
C22_LoadingErrorExclusive ==
    /\ ~(store.loading /\ store.error # NULL)
    /\ last.op \in AuthOk => (store.loading = FALSE /\ store.error = NULL)
    /\ last.op \in AuthFail => (store.loading = FALSE /\ store.error = last.thrown)

\* C23: checkAuth is called by the root's mount effect and by nothing else:
\* it is the first store operation of the process, it runs once, and no
\* later step (store change, login, logout, render) issues it again.
C23_CheckAuthOnceOnMount ==
    [][ /\ last'.op = "checkAuth" => (mounted = FALSE /\ mounted' = TRUE)
        /\ last'.op \notin {"checkAuth", "render", "getIsAdmin"} => mounted
        /\ mounted => mounted'
        /\ (mounted /\ last'.op \notin AuthStarts) =>
              Cardinality({i \in 1..Len(pending') : pending'[i].op = "checkAuth"})
                <= Cardinality({i \in 1..Len(pending) : pending[i].op = "checkAuth"})
        /\ Cardinality({i \in 1..Len(pending') : pending'[i].op = "checkAuth"}) <= 1
      ]_vars

\* the session changed after the startup check came back, and no new check
\* was issued
C23_Witness ==
    /\ mounted
    /\ last.op = "logout"
    /\ last.call = NoCall
    /\ \A i \in 1..Len(pending) : pending[i].op # "checkAuth"

\* C24: logout is not undone by a request issued before it: a success
\* response consumed in the step right after logout belongs to a login,
\* signUp or checkAuth that was in flight when logout ran, and it leaves the
\* session unauthenticated (isAuthenticated = false, token = null, no
\* persisted authToken).
C24_LogoutNotUndone ==
    [][ (last.op = "logout" /\ last'.op \in AuthOk) =>
          /\ store'.isAuthenticated = FALSE
          /\ store'.token = NULL
          /\ authToken' = NULL ]_vars

\* C25: a failing checkAuth discards only the token it validated: when the
\* persisted token is no longer the one the check read, because a login or
\* signUp stored a new one while the check was in flight, the failure leaves
\* the persisted token and the session (user, token, isAuthenticated) as the
\* login left them.
C25_CheckAuthFailureSparesNewToken ==
    [][ ( /\ last'.op = "checkAuthRejected"
          /\ authToken \in Tokens
          /\ authToken # last'.req.token ) =>
          /\ authToken' = authToken
          /\ store'.token = store.token
          /\ store'.user = store.user
          /\ store'.isAuthenticated = store.isAuthenticated ]_vars

\* a request of the operation is in flight
InFlight(op) == \E i \in 1..Len(pending) : pending[i].op = op

\* C26: when every request is answered, a login, a signUp and a checkAuth in
\* flight are each followed by the step that resolves one, loading does not
\* stay true forever, and in every state without a store operation in flight
\* loading is false, whatever logouts and overlapping operations came between.
C26_ResolvesAndStopsLoading ==
    /\ [](pending = << >> => store.loading = FALSE)
    /\ InFlight("login") ~> (last.op \in {"loginFulfilled", "loginRejected"})
    /\ InFlight("signUp") ~> (last.op \in {"signUpFulfilled", "signUpRejected"})
    /\ InFlight("checkAuth") ~> ~InFlight("checkAuth")
    /\ store.loading ~> (store.loading = FALSE)

\* the startup check was answered after a logout, and nothing is in flight
C26_Witness ==
    /\ last.op = "checkAuthFulfilled"
    /\ authToken = NULL
    /\ pending = << >>
    /\ store.loading = FALSE

\* C27: a user-management request never turns the guard's outcome from
\* Allowed to Pending: when the guard allows a route before the request is
\* issued, it allows it right after, with the request in flight.
C27_ManagementKeepsAllowed ==
    [][ last'.op = "manage" =>
          \A ra \in BOOLEAN, rsa \in BOOLEAN :
              ProtectedRoute(store, ra, rsa).outcome = "Allowed" =>
                  ProtectedRoute(store', ra, rsa).outcome = "Allowed" ]_vars

\* C28: logout leaves loading and error exactly as they were, empties the
\* cached users list, sets stats to null and clears user, token and
\* isAuthenticated.
C28_LogoutFrame ==
    [][ last'.op = "logout" =>
          /\ store'.loading = store.loading
          /\ store'.error = store.error
          /\ store'.users = << >>
          /\ store'.stats = NULL
          /\ Unauthenticated(store') ]_vars

\* a logout while a request was in flight and the store showed loading
C28_Witness ==
    /\ last.op = "logout"
    /\ store.loading = TRUE
    /\ pending # << >>
    /\ store.users = << >>

\* C29: checkAuth with no persisted token writes only isAuthenticated (false)
\* and loading (false): user, token, error, users and stats are after it as
\* before, so the session is fully unauthenticated after it only if token and
\* user were already absent.
C29_CheckAuthWithoutTokenFrame ==
    [][ (last'.op = "checkAuth" /\ authToken = NULL) =>
          /\ store' = [store EXCEPT !.isAuthenticated = FALSE, !.loading = FALSE]
          /\ authToken' = authToken
          /\ authHeader' = authHeader
          /\ Unauthenticated(store') => (store.token = NULL /\ store.user = NoUser)
      ]_vars

\* checkAuth ran with nothing persisted on a store without token and user
C29_Witness ==
    /\ last.op = "checkAuth"
    /\ last.call = NoCall
    /\ Unauthenticated(store)
    /\ store.error = NULL
    /\ pending = << >>

\* C30: when a user-management operation fails, error is the failure
\* message, loading is false, users, stats and user are unchanged and nothing
\* is thrown to the caller, where a failed login or signUp from the same state
\* throws the message.
C30_ManagementFailure ==
    [][ last'.op = "manageRejected" =>
          /\ store'.error \in Messages
          /\ store'.loading = FALSE
          /\ store'.users = store.users
          /\ store'.stats = store.stats
          /\ store'.user = store.user
          /\ last'.thrown = NULL
          /\ last'.req.op \in ManageOps
          /\ \A m \in Messages :
                /\ loginRejected(World, m).thrown = m
                /\ signUpRejected(World, m).thrown = m ]_vars

\* an operation failed while the list held accounts
C30_Witness ==
    /\ last.op = "manageRejected"
    /\ store.error \in Messages
    /\ Len(store.users) = 2
    /\ store.user # NoUser

\* the record of the list with the id, NoUser when there is none
Listed(users, id) ==
    IF \E i \in 1..Len(users) : users[i].id = id
    THEN users[CHOOSE i \in 1..Len(users) : users[i].id = id]
    ELSE NoUser

\* the record with the id before any mutation
Original(id) ==
    IF id = CreatedUser.id THEN NoUser ELSE Listed(FetchedUsers, id)

\* what a single applied mutation leaves of the record it addresses
Outcome(m) ==
    CASE m.op = "createUser"   -> CreatedUser
      [] m.op = "deleteUser"   -> NoUser
      [] m.op = "suspendUser"  -> [Original(m.id) EXCEPT !.account_status = "suspended"]
      [] m.op = "activateUser" -> [Original(m.id) EXCEPT !.account_status = "active"]

\* C31: a successful createUser, deleteUser, suspendUser or activateUser
\* changes the list as it is when the response arrives and only in the
\* record it addresses (createUser appends the returned user, deleteUser
\* removes the records with the id, suspendUser and activateUser set
\* account_status of the record with the id), so with mutations on different
\* ids overlapping, every applied one has taken effect and every other
\* record is as it was, in whichever order the responses arrived.
C31_MutationsCompose ==
    /\ [][ (last'.op = "manageFulfilled" /\ last'.req.op \in ListMutations) =>
             LET old == store.users
                 new == store'.users
                 id  == last'.req.id
             IN  /\ last'.req.op = "createUser" =>
                       /\ Len(new) = Len(old) + 1
                       /\ SubSeq(new, 1, Len(old)) = old
                       /\ new[Len(new)] = last'.data.user
                 /\ last'.req.op = "deleteUser" =>
                       /\ \A k \in 1..Len(new) : new[k].id # id
                       /\ new = SelectSeq(old, LAMBDA u : u.id # id)
                 /\ last'.req.op \in {"suspendUser", "activateUser"} =>
                       /\ Len(new) = Len(old)
                       /\ \A k \in 1..Len(old) :
                             IF old[k].id = id
                             THEN new[k] = [old[k] EXCEPT !.account_status =
                                              IF last'.req.op = "suspendUser"
                                              THEN "suspended" ELSE "active"]
                             ELSE new[k] = old[k] ]_vars
    /\ [](\A id \in Ids \cup {CreatedUser.id} :
             IF \E m \in applied : m.id = id
             THEN \A m \in applied : m.id = id => Listed(store.users, id) = Outcome(m)
             ELSE Listed(store.users, id) = Original(id))

\* two overlapping mutations were both applied, the one issued last first
C31_Witness ==
    /\ Cardinality(applied) = 2
    /\ \E m \in applied : m.overtook
    /\ \E m \in applied : m.op = "deleteUser"
    /\ \E m \in applied : m.op = "activateUser" /\ Listed(store.users, m.id).account_status = "active"

\* C32: a submit whose login succeeds calls navigate once, with /admin for
\* the roles admin and super_admin and /dashboard otherwise; a submit whose
\* login fails calls navigate not at all and leaves a message in the page's
\* error; after either the page's loading flag is false.
C32_SubmitNavigatesOnce ==
    [][ /\ last'.op = "loginFulfilled" =>
              /\ Len(loginPage'.navigate) = 1
              /\ loginPage'.navigate[1] =
                    IF last'.data.user.role \in {"admin", "super_admin"}
                    THEN "/admin" ELSE "/dashboard"
              /\ store'.user = last'.data.user
              /\ loginPage'.loading = FALSE
        /\ last'.op = "loginRejected" =>
              /\ loginPage'.navigate = << >>
              /\ loginPage'.error \in Messages \cup Details
              /\ loginPage'.loading = FALSE
        /\ last'.op = "login" => loginPage'.loading = TRUE ]_vars

\* a super_admin signed in while the startup check was still in flight
C32_Witness ==
    /\ last.op = "loginFulfilled"
    /\ store.user.role = "super_admin"
    /\ loginPage.navigate = <<"/admin">>
    /\ loginPage.loading = FALSE
    /\ InFlight("checkAuth")

\* the record of the server list with the id is listed
ServerListed(servers, id) == \E i \in 1..Len(servers) : servers[i].id = id

\* C33: provisioning puts exactly one new record first in the list, with
\* status provisioning and no IP address, and schedules its completion once;
\* when the completion runs, the record with that id, if listed, becomes
\* active with an IP address and nothing else changes, and if it is no longer
\* listed the list is left as it is.
C33_ProvisionThenComplete ==
    [][ LET old == serverScreen.servers
            new == serverScreen'.servers
            id  == event'.id
        IN  /\ event'.op = "handleProvision" =>
                  /\ Len(new) = Len(old) + 1
                  /\ Tail(new) = old
                  /\ new[1] = [id |-> id, server_status |-> "provisioning",
                               ip_address |-> NULL]
                  /\ ~ServerListed(old, id)
                  /\ Cardinality({k \in 1..Len(serverScreen'.timers) :
                                     serverScreen'.timers[k].id = id}) = 1
                  /\ Len(serverScreen'.timers) = Len(serverScreen.timers) + 1
            /\ (event'.op = "timer" /\ event'.arg = "provision") =>
                  /\ Len(new) = Len(old)
                  /\ \A k \in 1..Len(old) :
                        IF old[k].id = id
                        THEN /\ new[k].id = id
                             /\ new[k].server_status = "active"
                             /\ new[k].ip_address # NULL
                        ELSE new[k] = old[k]
                  /\ ~ServerListed(old, id) => new = old
                  /\ \A k \in 1..Len(serverScreen'.timers) :
                        serverScreen'.timers[k].id # id ]_vars

\* the completion ran for a server that had been deleted in the meantime
C33_Witness ==
    /\ event.op = "timer"
    /\ event.arg = "provision"
    /\ ~ServerListed(serverScreen.servers, event.id)
    /\ serverScreen.servers # << >>
    /\ serverScreen.loading = FALSE

\* C34: terminated is absorbing: a server whose status is terminated has, as
\* long as it is listed, no other status after any action of the screen or
\* any timer.
C34_TerminatedAbsorbing ==
    [][ \A i \in 1..Len(serverScreen.servers), j \in 1..Len(serverScreen'.servers) :
          ( /\ serverScreen.servers[i].server_status = "terminated"
            /\ serverScreen'.servers[j].id = serverScreen.servers[i].id ) =>
          serverScreen'.servers[j].server_status = "terminated" ]_vars

\* C35: updating the order status or the payment status of an order changes
\* only that field of the order with that id (every other order, the length
\* and the order of the list stay), and while the details modal is open the
\* selected order has the order_status and payment_status of the list entry
\* with its id.
C35_OrderUpdates ==
    /\ [][ LET old == ordersScreen.orders
               new == ordersScreen'.orders
           IN  /\ event'.op = "handleUpdateOrderStatus" =>
                     /\ Len(new) = Len(old)
                     /\ \A k \in 1..Len(old) :
                           new[k] = IF old[k].id = event'.id
                                    THEN [old[k] EXCEPT !.order_status = event'.arg]
                                    ELSE old[k]
               /\ event'.op = "handleUpdatePaymentStatus" =>
                     /\ Len(new) = Len(old)
                     /\ \A k \in 1..Len(old) :
                           new[k] = IF old[k].id = event'.id
                                    THEN [old[k] EXCEPT !.payment_status = event'.arg]
                                    ELSE old[k] ]_vars
    /\ [](ordersScreen.showModal /\ ordersScreen.selectedOrder # NoOrder =>
            \E k \in 1..Len(ordersScreen.orders) :
                /\ ordersScreen.orders[k].id = ordersScreen.selectedOrder.id
                /\ ordersScreen.orders[k].order_status =
                       ordersScreen.selectedOrder.order_status
                /\ ordersScreen.orders[k].payment_status =
                       ordersScreen.selectedOrder.payment_status)

\* with the modal open on an order, its row was cancelled and its payment
\* then refunded from the modal
C35_Witness ==
    /\ event.op = "handleUpdatePaymentStatus"
    /\ event.arg = "refunded"
    /\ ordersScreen.showModal
    /\ ordersScreen.selectedOrder.id = event.id
    /\ ordersScreen.selectedOrder.order_status = "cancelled"
    /\ ordersScreen.selectedOrder.payment_status = "refunded"
    /\ ordersScreen.orders[2] = SEED_ORDERS[2]

\* the plan of the list with the id is listed
PlanListed(plans, id) == \E i \in 1..Len(plans) : plans[i].id = id

\* C36: toggling flips is_active of the plan with the id and nothing else, so
\* a second toggle gives the list back; saving a new plan puts one record with
\* a fresh id first; saving an edited plan replaces only the record with its
\* id and keeps the length; a cancelled delete leaves the list as it is.
C36_PlanEdits ==
    [][ LET old == plansScreen.plans
            new == plansScreen'.plans
            id  == event'.id
        IN  /\ event'.op = "handleToggleActive" =>
                  /\ Len(new) = Len(old)
                  /\ \A k \in 1..Len(old) :
                        new[k] = IF old[k].id = id
                                 THEN [old[k] EXCEPT !.is_active = ~old[k].is_active]
                                 ELSE old[k]
                  /\ \A k \in 1..Len(new) :
                        new[k].id = id =>
                            handleToggleActive(new, id, new[k].is_active) = old
            /\ (event'.op = "handleSavePlan" /\ event'.arg = "new") =>
                  /\ Len(new) = Len(old) + 1
                  /\ Tail(new) = old
                  /\ new[1].id = id
                  /\ id \notin {"", NoPlan.id}
                  /\ ~PlanListed(old, id)
                  /\ new[1] = [plansScreen.editingPlan EXCEPT !.id = id]
            /\ (event'.op = "handleSavePlan" /\ event'.arg = "edit") =>
                  /\ Len(new) = Len(old)
                  /\ \A k \in 1..Len(old) :
                        new[k] = IF old[k].id = id
                                 THEN plansScreen.editingPlan
                                 ELSE old[k]
            /\ (event'.op = "handleDeletePlan" /\ event'.arg = "cancelled") =>
                  new = old ]_vars

\* a plan created in this visit was toggled off, next to an edited seed plan
C36_Witness ==
    /\ event.op = "handleToggleActive"
    /\ event.id = NewPlanId(1)
    /\ Len(plansScreen.plans) = 3
    /\ plansScreen.plans[1].id = NewPlanId(1)
    /\ plansScreen.plans[1].is_active = FALSE
    /\ plansScreen.plans[2] = [SEED_PLANS[1] EXCEPT !.name = "Cloud"]

====
